---------------------------- MODULE Spec2Model ----------------------------
(***************************************************************************)
(* Model of the consignment processor of the RGB node                      *)
(* (src/src/containerd/processor.rs): Runtime::process_consignment merges  *)
(* a validated consignment into the stash, Runtime::compose_consignment    *)
(* and the Collector walk the stash and assemble a consignment.            *)
(*                                                                         *)
(* Identifiers (contract, schema, node, bundle ids, txids) are opaque      *)
(* hashes in the code; here they are strings, and a node's content is a    *)
(* function of its id.  The stash holds what the contracts of a small      *)
(* fixed universe of nodes can put there.                                  *)
(***************************************************************************)
EXTENDS Integers, Sequences, FiniteSets

VARIABLES
    db,        \* the stash: one key-value table per Db::* table name
    last,      \* what the last process_consignment call was given and returned
    pc,        \* position of the running compose_consignment call
    req,       \* its arguments: contract_id, include, outpoint_selection
    todo,      \* transition types of `include` still to be walked (line 209)
    collector, \* the Collector: anchored_bundles, endpoints, endpoint_inputs
    tips,      \* the tips vector of compose_consignment (line 208)
    visits,    \* log: every transition id Collector::process has loaded
    out,       \* what compose_consignment returned
    ingests    \* process_consignment calls of runtimes sharing the stash

vars == <<db, last, pc, req, todo, collector, tips, visits, out, ingests>>

---------------------------------------------------------------------------
(* Bounds of the model *)

\* largest number of (anchor, bundle) pairs in one ingested consignment
MaxBundles == 2

\* stands for the largest number of anchored bundles a consignment may
\* carry (the capacity of the bounded collection built at lines 311-316)
MaxAnchoredBundles == 3

---------------------------------------------------------------------------
(* The universe of nodes *)

Contracts == {"c1", "c2"}
TransitionTypes == {"A", "B"}
TypeOrder == <<"A", "B">>
TxidOrder == <<"X1", "X2", "X3", "X4">>
NodeOrder == <<"T1", "T2", "T3", "T4", "T5", "T6", "T7", "U1">>
NoTxid == "none"
ZeroSchemaId == "zero"

\* a seal of an assignment: revealed (txid, vout; txid may be unset) or concealed
RevealedSeal(txid, vout) == [revealed |-> TRUE, txid |-> txid, vout |-> vout]
ConcealedSeal == [revealed |-> FALSE, txid |-> NoTxid, vout |-> 0]

Schemata ==
    [ S1 |-> [schema_id |-> "S1", root_id |-> "R1"],
      R1 |-> [schema_id |-> "R1", root_id |-> ZeroSchemaId],
      S2 |-> [schema_id |-> "S2", root_id |-> ZeroSchemaId] ]

GenesisOf ==
    [ c1 |-> [node_id |-> "G1", contract_id |-> "c1", schema_id |-> "S1",
              owned_rights |-> << <<RevealedSeal("X0", 0)>> >>],
      c2 |-> [node_id |-> "G2", contract_id |-> "c2", schema_id |-> "S2",
              owned_rights |-> << <<RevealedSeal("X0", 1)>> >>] ]

\* parent_outputs are (node id, output number) pairs; owned_rights is one
\* vector of assignments (seals) per owned right type.
\*   T1 spends the genesis output.  T2 has no owned parent; T3, T5 and T6
\*   spend its outputs in one witness transaction, T3 with a concealed seal.
\*   T4 spends T3 and has two revealed seals; T7 spends T5 and T6 (a diamond
\*   over T2).  U1 belongs to the other contract and shares T1's witness.
Transitions ==
    [ T1 |-> [node_id |-> "T1", contract_id |-> "c1", transition_type |-> "A",
              witness |-> "X1", parent_outputs |-> << <<"G1", 0>> >>,
              owned_rights |-> << <<RevealedSeal(NoTxid, 0)>> >>],
      T2 |-> [node_id |-> "T2", contract_id |-> "c1", transition_type |-> "B",
              witness |-> "X2", parent_outputs |-> << >>,
              owned_rights |-> << <<RevealedSeal(NoTxid, 0), ConcealedSeal,
                                    ConcealedSeal>> >>],
      T3 |-> [node_id |-> "T3", contract_id |-> "c1", transition_type |-> "B",
              witness |-> "X3", parent_outputs |-> << <<"T2", 0>> >>,
              owned_rights |-> << <<ConcealedSeal>> >>],
      T4 |-> [node_id |-> "T4", contract_id |-> "c1", transition_type |-> "A",
              witness |-> "X4", parent_outputs |-> << <<"T3", 0>> >>,
              owned_rights |-> << <<RevealedSeal(NoTxid, 0), RevealedSeal(NoTxid, 1)>> >>],
      T5 |-> [node_id |-> "T5", contract_id |-> "c1", transition_type |-> "B",
              witness |-> "X3", parent_outputs |-> << <<"T2", 1>> >>,
              owned_rights |-> << <<RevealedSeal(NoTxid, 0), ConcealedSeal>> >>],
      T6 |-> [node_id |-> "T6", contract_id |-> "c1", transition_type |-> "B",
              witness |-> "X3", parent_outputs |-> << <<"T2", 2>> >>,
              owned_rights |-> << <<RevealedSeal(NoTxid, 1), ConcealedSeal>> >>],
      T7 |-> [node_id |-> "T7", contract_id |-> "c1", transition_type |-> "A",
              witness |-> "X4", parent_outputs |-> << <<"T5", 1>>, <<"T6", 1>> >>,
              owned_rights |-> << <<RevealedSeal(NoTxid, 2)>> >>],
      U1 |-> [node_id |-> "U1", contract_id |-> "c2", transition_type |-> "A",
              witness |-> "X1", parent_outputs |-> << >>,
              owned_rights |-> << <<RevealedSeal(NoTxid, 1)>> >>] ]

\* a state extension of contract c2
Extensions ==
    [ E1 |-> [node_id |-> "E1", contract_id |-> "c2", parent_outputs |-> << >>,
              owned_rights |-> << <<RevealedSeal("X9", 0)>> >>] ]

TransitionIds == DOMAIN Transitions
Txids == {TxidOrder[i] : i \in 1..Len(TxidOrder)}

\* the transitions of contract c that witness transaction x anchors
BundleNodes(c, x) ==
    {n \in TransitionIds : Transitions[n].contract_id = c /\ Transitions[n].witness = x}

TxidsOf(c) == {x \in Txids : BundleNodes(c, x) # {}}

\* the elements of set S in the order of sequence ord
Sorted(S, ord) == SelectSeq(ord, LAMBDA e : e \in S)

SeqToSet(s) == {s[i] : i \in 1..Len(s)}

---------------------------------------------------------------------------
(* The stash store (Db).  A table is a function from the keys it holds to  *)
(* their values; retrieve of a key outside its domain is None.             *)

EmptyTable == [k \in {} |-> 0]

Tables == {"schemata", "genesis", "anchors", "bundles", "transitions",
           "transition_txid", "contract_transitions", "extensions", "contracts"}

EmptyDb == [t \in Tables |-> EmptyTable]

\* Db::retrieve / retrieve_h: is there a value, and which
Has(d, table, key) == key \in DOMAIN d[table]
Retrieve(d, table, key) == d[table][key]

\* Db::store / store_h: overwrite
Store(d, table, key, value) ==
    [d EXCEPT ![table] =
        [k \in DOMAIN d[table] \cup {key} |-> IF k = key THEN value ELSE d[table][k]]]

\* MergeReveal: an anchor (Merkle block) gains the leaves of the other one;
\* a node's content is fixed by its id, so merging two copies gives the copy
MergeReveal(new_obj, stored_obj) ==
    IF "leaves" \in DOMAIN new_obj
    THEN [new_obj EXCEPT !.leaves = new_obj.leaves \cup stored_obj.leaves]
    ELSE new_obj

\* Db::store_merge / store_merge_h: combine with the stored value, then store
StoreMerge(d, table, key, new_obj) ==
    LET stored_obj == IF Has(d, table, key) THEN Retrieve(d, table, key) ELSE new_obj
    IN  Store(d, table, key, MergeReveal(new_obj, stored_obj))

\* Db::insert_into_set: union of the stored set with the element
InsertIntoSet(d, table, key, element) ==
    Store(d, table, key,
          (IF Has(d, table, key) THEN Retrieve(d, table, key) ELSE {}) \cup {element})

\* Db::index_two_pieces
IndexTwoPieces(contract_id, transition_type) == <<contract_id, transition_type>>

\* Db::transitions_by_type: the indexed node ids, in the order of their ids
TransitionsByType(d, contract_id, transition_type) ==
    LET index_id == IndexTwoPieces(contract_id, transition_type)
    IN  IF Has(d, "contract_transitions", index_id)
        THEN Sorted(Retrieve(d, "contract_transitions", index_id), NodeOrder)
        ELSE << >>

---------------------------------------------------------------------------
(* Consignments the node may be handed *)

\* TransitionBundle::bundle_id: commits to the ids of all its transitions
BundleId(bundle) == bundle.revealed \cup bundle.concealed

\* an anchor in proof form is the Merkle path of one protocol (contract);
\* a bundle holds each of its transitions revealed or concealed
AnchoredBundle(contract_id, txid, revealed, protocol) ==
    [anchor |-> [txid |-> txid, protocol |-> protocol],
     bundle |-> [revealed |-> revealed,
                 concealed |-> BundleNodes(contract_id, txid) \ revealed]]

\* the state extensions a consignment of contract c carries
ExtensionsOf(c) ==
    Sorted({e \in DOMAIN Extensions : Extensions[e].contract_id = c}, <<"E1">>)

\* the root schema a consignment carries is an Option: None, or a schema
\* (whatever the root id its schema names)
RootSchemas == {<< >>, <<Schemata["R1"]>>}

ConsignmentsOver(c, S) ==
    LET sx == Sorted(S, TxidOrder)
        nodes == UNION {BundleNodes(c, x) : x \in S}
    IN  { [contract_id |-> c,
           schema |-> Schemata[GenesisOf[c].schema_id],
           root_schema |-> root,
           genesis |-> GenesisOf[c],
           anchored_bundles |->
               [i \in 1..Len(sx) |-> AnchoredBundle(c, sx[i], r[sx[i]], p[sx[i]])],
           state_extensions |-> ExtensionsOf(c)] :
          r \in {f \in [S -> SUBSET nodes] :
                   \A x \in S : f[x] # {} /\ f[x] \subseteq BundleNodes(c, x)},
          p \in [S -> Contracts],
          root \in RootSchemas }

\* consignments of at most MaxBundles anchored bundles, with or without a
\* root schema; the bundles as Collector::consignment emits them: ordered by
\* txid (a BTreeMap keyed by txid, line 311), each bundle with a revealed
\* transition (line 285)
Consignments ==
    UNION { UNION { ConsignmentsOver(c, S) :
            S \in {Q \in SUBSET TxidsOf(c) : Cardinality(Q) <= MaxBundles} } :
            c \in Contracts }

\* line 119: the consignment's root_schema field, << >> for None
RootSchema(consignment) == consignment.root_schema

Validities == {"Valid", "UnresolvedTransactions", "Invalid"}

---------------------------------------------------------------------------
(* Runtime::process_consignment *)

\* the (node id, output number) of every revealed assignment of a node
RevealedOutputs(node) ==
    UNION { { <<node.node_id, i - 1>> :
              i \in {i \in 1..Len(node.owned_rights[j]) : node.owned_rights[j][i].revealed} } :
            j \in 1..Len(node.owned_rights) }

\* ContractState is a type of rgb-core, which is not part of this
\* repository's source; what follows is the fold the specification
\* describes, on the owned outputs only: the state's metadata and its other
\* fields are not modelled, so no property here speaks of them.
\* ContractState::with (line 97): the state the genesis assigns
ContractStateWith(contract_id, genesis) ==
    [contract_id |-> contract_id, owned |-> RevealedOutputs(genesis)]

\* ContractState::add_transition (line 148): the outputs the node spends
\* leave the state, its revealed assignments enter it
AddTransition(state, witness_txid, transition) ==
    [state EXCEPT !.owned =
        (@ \ SeqToSet(transition.parent_outputs)) \cup RevealedOutputs(transition)]

\* ContractState::add_extension (line 168)
AddExtension(state, extension) ==
    [state EXCEPT !.owned =
        (@ \ SeqToSet(extension.parent_outputs)) \cup RevealedOutputs(extension)]

\* lines 95-98: the stored state, or the state of the consignment's genesis
\* when the contract was previously unknown
InitialStateFresh(d, contract_id, genesis) ==
    ContractStateWith(contract_id, genesis)

InitialState(d, contract_id, genesis) ==
    IF Has(d, "contracts", contract_id)
    THEN Retrieve(d, "contracts", contract_id)
    ELSE ContractStateWith(contract_id, genesis)

\* lines 105-114: the merge goes on when the consignment is valid, or has
\* unresolved transactions and the caller forces the import
ProceedsValidOnly(validity, force) == validity = "Valid"

ProceedsUnforced(validity, force) ==
    validity = "Valid" \/ validity = "UnresolvedTransactions"

Proceeds(validity, force) ==
    validity = "Valid" \/ (validity = "UnresolvedTransactions" /\ force)

\* Anchor::into_merkle_block (lines 133-135): the Merkle proof becomes a
\* block holding the leaf (contract_id, bundle_id); it cannot when the proof
\* is the path of another protocol
IntoMerkleBlockOk(anchor, contract_id) == anchor.protocol = contract_id
IntoMerkleBlock(anchor, contract_id, bundle_id) ==
    [txid |-> anchor.txid, leaves |-> {<<contract_id, bundle_id>>}]

\* lines 141-159 without line 148: stored and indexed, not folded
RECURSIVE StoreTransitionsUnfolded(_, _, _, _)
StoreTransitionsUnfolded(acc, contract_id, witness_txid, ids) ==
    IF ids = << >> THEN acc
    ELSE LET transition == Transitions[Head(ids)]
             node_id == transition.node_id
             index_id == IndexTwoPieces(contract_id, transition.transition_type)
             d1 == StoreMerge(acc.db, "transitions", node_id, transition)
             d2 == Store(d1, "transition_txid", node_id, witness_txid)
             d3 == InsertIntoSet(d2, "contract_transitions", index_id, node_id)
         IN  StoreTransitionsUnfolded(
                 [db |-> d3, state |-> acc.state, data |-> acc.data \cup {node_id}],
                 contract_id, witness_txid, Tail(ids))

\* lines 141-159: the revealed transitions of one bundle, in their order;
\* acc = [db, state, data]
RECURSIVE StoreTransitions(_, _, _, _)
StoreTransitions(acc, contract_id, witness_txid, ids) ==
    IF ids = << >> THEN acc
    ELSE LET transition == Transitions[Head(ids)]
             node_id == transition.node_id
             index_id == IndexTwoPieces(contract_id, transition.transition_type)
             d1 == StoreMerge(acc.db, "transitions", node_id, transition)
             d2 == Store(d1, "transition_txid", node_id, witness_txid)
             d3 == InsertIntoSet(d2, "contract_transitions", index_id, node_id)
         IN  StoreTransitions(
                 [db |-> d3,
                  state |-> AddTransition(acc.state, witness_txid, transition),
                  data |-> acc.data \cup {node_id}],
                 contract_id, witness_txid, Tail(ids))

\* lines 127-161: the (anchor, bundle) pairs in their order; an anchor that
\* does not convert panics (expect, line 135): what was stored stays stored
\* and the thread of the runtime is gone (pc = "panicked", no further step);
\* acc = [db, state, panicked]
RECURSIVE StoreAnchoredBundles(_, _, _)
StoreAnchoredBundles(acc, contract_id, anchored_bundles) ==
    IF anchored_bundles = << >> THEN acc
    ELSE LET anchor == Head(anchored_bundles).anchor
             bundle == Head(anchored_bundles).bundle
             bundle_id == BundleId(bundle)
             witness_txid == anchor.txid
         IN  IF ~IntoMerkleBlockOk(anchor, contract_id)
             THEN [acc EXCEPT !.panicked = TRUE]
             ELSE LET d1 == StoreMerge(acc.db, "anchors", witness_txid,
                                       IntoMerkleBlock(anchor, contract_id, bundle_id))
                      r == StoreTransitions(
                               [db |-> d1, state |-> acc.state,
                                data |-> bundle.concealed],
                               contract_id, witness_txid,
                               Sorted(bundle.revealed, NodeOrder))
                      d2 == Store(r.db, "bundles", witness_txid, r.data)
                  IN  StoreAnchoredBundles(
                          [db |-> d2, state |-> r.state, panicked |-> FALSE],
                          contract_id, Tail(anchored_bundles))

\* lines 162-172; acc = [db, state]
RECURSIVE StoreExtensions(_, _)
StoreExtensions(acc, ids) ==
    IF ids = << >> THEN acc
    ELSE LET extension == Extensions[Head(ids)]
         IN  StoreExtensions(
                 [db |-> StoreMerge(acc.db, "extensions", extension.node_id, extension),
                  state |-> AddExtension(acc.state, extension)],
                 Tail(ids))

\* lines 95-98 and 116-176: the writes of a merge that passed the gate
Merge(d, consignment) ==
    LET contract_id == consignment.contract_id
        state == InitialState(d, contract_id, consignment.genesis)
        d1 == Store(d, "schemata", consignment.schema.schema_id, consignment.schema)
        root == RootSchema(consignment)
        d2 == IF root # << >> THEN Store(d1, "schemata", root[1].schema_id, root[1]) ELSE d1
        d3 == StoreMerge(d2, "genesis", contract_id, consignment.genesis)
        b == StoreAnchoredBundles([db |-> d3, state |-> state, panicked |-> FALSE],
                                  contract_id, consignment.anchored_bundles)
        e == StoreExtensions([db |-> b.db, state |-> b.state],
                             consignment.state_extensions)
    IN  IF b.panicked
        THEN [db |-> b.db, outcome |-> "panicked"]
        ELSE [db |-> Store(e.db, "contracts", contract_id, e.state),
              outcome |-> "returned"]

\* what the last call was given and how it ended
NoCall == [op |-> "none"]

ProcessConsignment(consignment) ==
    /\ pc = "idle"
    /\ LET m == Merge(db, consignment)
           known == Has(db, "contracts", consignment.contract_id)
       IN  \E force \in BOOLEAN, status \in Validities :
               IF Proceeds(status, force)
               THEN /\ db' = m.db
                    /\ last' = [op |-> "process_consignment",
                                contract_id |-> consignment.contract_id,
                                known |-> known,
                                validity |-> status, force |-> force,
                                merged |-> TRUE, outcome |-> m.outcome,
                                status |-> IF m.outcome = "returned"
                                           THEN status ELSE "none"]
                    /\ pc' = (IF m.outcome = "returned" THEN "done" ELSE "panicked")
               ELSE /\ db' = db
                    /\ last' = [op |-> "process_consignment",
                                contract_id |-> consignment.contract_id,
                                known |-> known,
                                validity |-> status, force |-> force,
                                merged |-> FALSE, outcome |-> "returned",
                                status |-> status]
                    /\ pc' = "done"
    /\ UNCHANGED <<req, todo, collector, tips, visits, out, ingests>>

---------------------------------------------------------------------------
(* process_consignment calls of two runtimes on one stash: every Db call *)
(* of a call is a step of its own, and the other runtime may run between  *)
(* any two of them                                                         *)

Workers == {"w1", "w2"}

\* largest number of (anchor, bundle) pairs in a consignment of these calls
MaxIngestBundles == 1

\* a call: its position, its consignment, the state it holds (line 95), the
\* pairs of the loop of line 127 still to come, the revealed transitions of
\* the loop of line 141 still to come, the data vector of line 139 and the
\* extensions of the loop of line 162 still to come
NoIngest ==
    [pc |-> "idle", consignment |-> << >>, state |-> << >>, overlapped |-> FALSE,
     anchored_bundles |-> << >>, revealed |-> << >>, data |-> {},
     state_extensions |-> << >>]
NoIngests == [w \in Workers |-> NoIngest]

\* the call of worker w has read the state and not yet stored it
InFlight(w) == ingests[w].pc \notin {"idle", "done", "panicked"}

\* valid consignments: every anchor converts, and the root schema is there
\* exactly when the schema names one
ValidConsignments ==
    {k \in Consignments :
        /\ Len(k.anchored_bundles) <= MaxIngestBundles
        /\ (k.root_schema # << >>) <=> (k.schema.root_id # ZeroSchemaId)
        /\ \A i \in 1..Len(k.anchored_bundles) :
               IntoMerkleBlockOk(k.anchored_bundles[i].anchor, k.contract_id)}

\* where a call goes on after line 125 and after line 160
AfterBundle(anchored_bundles, state_extensions) ==
    IF anchored_bundles # << >> THEN "anchor"
    ELSE IF state_extensions # << >> THEN "extension" ELSE "contracts"

\* lines 90-114: the state is retrieved and the consignment found valid
IngestRead(w, consignment) ==
    /\ ingests[w].pc = "idle"
    /\ ingests' =
           [ingests EXCEPT ![w] =
               [pc |-> "schema", consignment |-> <<consignment>>,
                state |-> <<InitialState(db, consignment.contract_id,
                                         consignment.genesis)>>,
                overlapped |-> \E u \in Workers \ {w} : InFlight(u),
                anchored_bundles |-> consignment.anchored_bundles,
                revealed |-> << >>, data |-> {},
                state_extensions |-> consignment.state_extensions]]
    /\ UNCHANGED <<db, last, pc, req, todo, collector, tips, visits, out>>

\* line 118
IngestStoreSchema(w) ==
    /\ ingests[w].pc = "schema"
    /\ LET consignment == ingests[w].consignment[1]
       IN  /\ db' = Store(db, "schemata", consignment.schema.schema_id,
                          consignment.schema)
           /\ ingests' = [ingests EXCEPT ![w].pc =
                             IF RootSchema(consignment) # << >>
                             THEN "root_schema" ELSE "genesis"]
    /\ UNCHANGED <<last, pc, req, todo, collector, tips, visits, out>>

\* lines 119-122
IngestStoreRootSchema(w) ==
    /\ ingests[w].pc = "root_schema"
    /\ LET root_schema == RootSchema(ingests[w].consignment[1])[1]
       IN  db' = Store(db, "schemata", root_schema.schema_id, root_schema)
    /\ ingests' = [ingests EXCEPT ![w].pc = "genesis"]
    /\ UNCHANGED <<last, pc, req, todo, collector, tips, visits, out>>

\* line 125
IngestStoreGenesis(w) ==
    /\ ingests[w].pc = "genesis"
    /\ LET consignment == ingests[w].consignment[1]
       IN  db' = StoreMerge(db, "genesis", consignment.contract_id, consignment.genesis)
    /\ ingests' = [ingests EXCEPT ![w].pc =
                      AfterBundle(ingests[w].anchored_bundles,
                                  ingests[w].state_extensions)]
    /\ UNCHANGED <<last, pc, req, todo, collector, tips, visits, out>>

\* lines 128-140: the anchor of the next pair is converted and stored, the
\* data vector starts with the concealed transitions of the bundle
IngestStoreAnchor(w) ==
    /\ ingests[w].pc = "anchor"
    /\ LET contract_id == ingests[w].consignment[1].contract_id
           anchor == Head(ingests[w].anchored_bundles).anchor
           bundle == Head(ingests[w].anchored_bundles).bundle
           revealed == Sorted(bundle.revealed, NodeOrder)
       IN  IF ~IntoMerkleBlockOk(anchor, contract_id)
           THEN /\ db' = db
                /\ ingests' = [ingests EXCEPT ![w].pc = "panicked"]
           ELSE /\ db' = StoreMerge(db, "anchors", anchor.txid,
                                    IntoMerkleBlock(anchor, contract_id, BundleId(bundle)))
                /\ ingests' = [ingests EXCEPT
                                  ![w].pc = IF revealed # << >> THEN "transition"
                                            ELSE "bundle",
                                  ![w].revealed = revealed,
                                  ![w].data = bundle.concealed]
    /\ UNCHANGED <<last, pc, req, todo, collector, tips, visits, out>>

\* lines 142-153: the next revealed transition is folded into the held
\* state, pushed to the data vector and stored
IngestStoreTransition(w) ==
    /\ ingests[w].pc = "transition"
    /\ LET witness_txid == Head(ingests[w].anchored_bundles).anchor.txid
           transition == Transitions[Head(ingests[w].revealed)]
       IN  /\ db' = StoreMerge(db, "transitions", transition.node_id, transition)
           /\ ingests' = [ingests EXCEPT
                             ![w].pc = "transition_txid",
                             ![w].state = <<AddTransition(ingests[w].state[1],
                                                          witness_txid, transition)>>,
                             ![w].data = @ \cup {transition.node_id}]
    /\ UNCHANGED <<last, pc, req, todo, collector, tips, visits, out>>

\* line 154
IngestStoreTxid(w) ==
    /\ ingests[w].pc = "transition_txid"
    /\ db' = Store(db, "transition_txid", Head(ingests[w].revealed),
                   Head(ingests[w].anchored_bundles).anchor.txid)
    /\ ingests' = [ingests EXCEPT ![w].pc = "index"]
    /\ UNCHANGED <<last, pc, req, todo, collector, tips, visits, out>>

\* lines 156-158, and the loop of line 141 goes on or ends
IngestIndex(w) ==
    /\ ingests[w].pc = "index"
    /\ LET transition == Transitions[Head(ingests[w].revealed)]
           index_id == IndexTwoPieces(ingests[w].consignment[1].contract_id,
                                      transition.transition_type)
       IN  db' = InsertIntoSet(db, "contract_transitions", index_id, transition.node_id)
    /\ ingests' = [ingests EXCEPT
                      ![w].pc = IF Tail(ingests[w].revealed) # << >>
                                THEN "transition" ELSE "bundle",
                      ![w].revealed = Tail(@)]
    /\ UNCHANGED <<last, pc, req, todo, collector, tips, visits, out>>

\* line 160, and the loop of line 127 goes on or ends
IngestStoreBundle(w) ==
    /\ ingests[w].pc = "bundle"
    /\ db' = Store(db, "bundles", Head(ingests[w].anchored_bundles).anchor.txid,
                   ingests[w].data)
    /\ ingests' = [ingests EXCEPT
                      ![w].pc = AfterBundle(Tail(ingests[w].anchored_bundles),
                                            ingests[w].state_extensions),
                      ![w].anchored_bundles = Tail(@),
                      ![w].data = {}]
    /\ UNCHANGED <<last, pc, req, todo, collector, tips, visits, out>>

\* lines 162-172: the next extension is folded into the held state and stored
IngestStoreExtension(w) ==
    /\ ingests[w].pc = "extension"
    /\ LET extension == Extensions[Head(ingests[w].state_extensions)]
       IN  /\ db' = StoreMerge(db, "extensions", extension.node_id, extension)
           /\ ingests' = [ingests EXCEPT
                             ![w].pc = IF Tail(ingests[w].state_extensions) # << >>
                                       THEN "extension" ELSE "contracts",
                             ![w].state = <<AddExtension(ingests[w].state[1], extension)>>,
                             ![w].state_extensions = Tail(@)]
    /\ UNCHANGED <<last, pc, req, todo, collector, tips, visits, out>>

\* lines 174-179: the held state is stored and the call returns
IngestStoreState(w) ==
    /\ ingests[w].pc = "contracts"
    /\ db' = Store(db, "contracts", ingests[w].consignment[1].contract_id,
                   ingests[w].state[1])
    /\ ingests' = [ingests EXCEPT ![w].pc = "done"]
    /\ UNCHANGED <<last, pc, req, todo, collector, tips, visits, out>>

---------------------------------------------------------------------------
(* OutpointSelection *)

SelectAll == [all |-> TRUE, outpoints |-> {}]
SelectOutpoints(S) == [all |-> FALSE, outpoints |-> S]

\* OutpointSelection::includes
SelectionIncludes(selection, outpoint) ==
    selection.all \/ outpoint \in selection.outpoints

\* the selections a compose request is tried with
OutpointSelections ==
    { SelectAll,
      SelectOutpoints({<<"X1", 0>>}),
      SelectOutpoints({<<"X4", 0>>, <<"X4", 1>>}),
      SelectOutpoints({<<"X4", 2>>}) }

---------------------------------------------------------------------------
(* Collector *)

NoError == [kind |-> "none", arg |-> "none"]
Error(kind, arg) == [kind |-> kind, arg |-> arg]

\* Collector::new (lines 228-235)
NewCollector(contract_id) ==
    [contract_id |-> contract_id, anchored_bundles |-> EmptyTable,
     endpoints |-> << >>, endpoint_inputs |-> << >>]

\* the stored bundle data read back as a TransitionBundle (lines 262-264):
\* every transition of it concealed
BundleOfData(data) == [revealed |-> {}, concealed |-> data]

\* Anchor::to_merkle_proof (line 265): the proof of the contract's leaf
ToMerkleProofOk(anchor, contract_id) ==
    \E leaf \in anchor.leaves : leaf[1] = contract_id
ToMerkleProof(anchor, contract_id) ==
    [txid |-> anchor.txid, protocol |-> contract_id]

\* lines 259-266: the (anchor, bundle) of the witness txid loaded from the
\* stash; [error, entry]
LoadBundle(coll, d, witness_txid) ==
    IF ~Has(d, "anchors", witness_txid)
    THEN [error |-> Error("AnchorAbsent", witness_txid), entry |-> << >>]
    ELSE IF ~Has(d, "bundles", witness_txid)
    THEN [error |-> Error("BundleAbsent", witness_txid), entry |-> << >>]
    ELSE IF ~ToMerkleProofOk(Retrieve(d, "anchors", witness_txid), coll.contract_id)
    THEN [error |-> Error("UnrelatedAnchor", witness_txid), entry |-> << >>]
    ELSE [error |-> NoError,
          entry |-> <<[anchor |-> ToMerkleProof(Retrieve(d, "anchors", witness_txid),
                                                coll.contract_id),
                       bundle |-> BundleOfData(Retrieve(d, "bundles", witness_txid))]>>]

\* lines 256-268 without the lookup of line 256: always the stash's copy
ResolveBundleUncached(coll, d, witness_txid) == LoadBundle(coll, d, witness_txid)

\* lines 256-268: the Collector's own copy when it has one
ResolveBundle(coll, d, witness_txid) ==
    IF witness_txid \in DOMAIN coll.anchored_bundles
    THEN [error |-> NoError, entry |-> <<coll.anchored_bundles[witness_txid]>>]
    ELSE LoadBundle(coll, d, witness_txid)

\* lines 271-272: the revealed seals of the transition with their output
\* number, in the order the loops meet them, from owned right j on
RECURSIVE RevealedSeals(_, _)
RevealedSeals(owned_rights, j) ==
    IF j > Len(owned_rights) THEN << >>
    ELSE LET seals == SelectSeq(owned_rights[j], LAMBDA seal : seal.revealed)
         IN  [i \in 1..Len(seals) |-> [output_no |-> j - 1, seal |-> seals[i]]]
             \o RevealedSeals(owned_rights, j + 1)

\* lines 273-274: the outpoint of a revealed seal
SealOutpoint(seal, witness_txid) ==
    <<IF seal.txid = NoTxid THEN witness_txid ELSE seal.txid, seal.vout>>

\* lines 271-276: the revealed seals the selection includes
MatchingSeals(transition, witness_txid, selection) ==
    SelectSeq(RevealedSeals(transition.owned_rights, 1),
              LAMBDA s : SelectionIncludes(selection, SealOutpoint(s.seal, witness_txid)))

\* line 280: the node ids of the transition's parent outputs
ParentInputsFirstOnly(transition) ==
    IF transition.parent_outputs = << >> THEN << >>
    ELSE <<transition.parent_outputs[1][1]>>

ParentInputs(transition) ==
    [i \in 1..Len(transition.parent_outputs) |-> transition.parent_outputs[i][1]]

\* sequence s repeated n times
RECURSIVE Repeat(_, _)
Repeat(s, n) == IF n = 0 THEN << >> ELSE s \o Repeat(s, n - 1)

\* lines 279-280: the parents are queued once for every matching seal
EndpointInputsUnconditional(transition, matching) ==
    Repeat(ParentInputs(transition), IF matching = << >> THEN 1 ELSE Len(matching))

EndpointInputs(transition, matching) ==
    Repeat(ParentInputs(transition), Len(matching))

\* TransitionBundle::reveal_transition (line 285)
RevealTransitionOk(bundle, node_id) ==
    node_id \in bundle.concealed \/ node_id \in bundle.revealed
RevealTransition(bundle, node_id) ==
    [revealed |-> bundle.revealed \cup {node_id},
     concealed |-> bundle.concealed \ {node_id}]

\* lines 248-285: one pass of the loop of Collector::process;
\* r = [collector, tips, visits, error]
ProcessTransition(r, d, transition_id, selection) ==
    IF ~Has(d, "transitions", transition_id)
    THEN [r EXCEPT !.error = Error("TransitionAbsent", transition_id)]
    ELSE IF ~Has(d, "transition_txid", transition_id)
    THEN [r EXCEPT !.error = Error("TransitionTxidAbsent", transition_id)]
    ELSE
    LET transition == Retrieve(d, "transitions", transition_id)
        witness_txid == Retrieve(d, "transition_txid", transition_id)
        resolved == ResolveBundle(r.collector, d, witness_txid)
    IN  IF resolved.error # NoError THEN [r EXCEPT !.error = resolved.error]
        ELSE
        LET entry == resolved.entry[1]
            bundle_id == BundleId(entry.bundle)
            matching == MatchingSeals(transition, witness_txid, selection)
            n == Len(matching)
        IN  IF ~RevealTransitionOk(entry.bundle, transition_id)
            THEN [r EXCEPT !.error = Error("BundleReveal", transition_id)]
            ELSE
            [collector |->
                [contract_id |-> r.collector.contract_id,
                 anchored_bundles |->
                     [x \in DOMAIN r.collector.anchored_bundles \cup {witness_txid} |->
                         IF x = witness_txid
                         THEN [anchor |-> entry.anchor,
                               bundle |-> RevealTransition(entry.bundle, transition_id)]
                         ELSE r.collector.anchored_bundles[x]],
                 endpoints |-> r.collector.endpoints \o
                     [i \in 1..n |-> <<bundle_id, matching[i].seal>>],
                 endpoint_inputs |-> r.collector.endpoint_inputs \o
                     EndpointInputs(transition, matching)],
             tips |-> r.tips \o [i \in 1..n |-> <<transition_id, matching[i].output_no>>],
             visits |-> Append(r.visits, transition_id),
             error |-> NoError]

\* Collector::process (lines 238-289): the node ids in their order, up to
\* the first error
RECURSIVE ProcessNodes(_, _, _, _)
ProcessNodes(r, d, node_ids, selection) ==
    IF node_ids = << >> \/ r.error # NoError THEN r
    ELSE ProcessNodes(ProcessTransition(r, d, Head(node_ids), selection),
                      d, Tail(node_ids), selection)

Process(coll, log, d, node_ids, selection) ==
    ProcessNodes([collector |-> coll, tips |-> << >>, visits |-> log, error |-> NoError],
                 d, node_ids, selection)

\* line 296: the selection of the backward pass
IterateSelection == SelectAll

\* Collector::consignment (lines 304-329): the anchored bundles in the
\* order of their txids
AnchoredBundlesOf(coll) ==
    LET sx == Sorted(DOMAIN coll.anchored_bundles, TxidOrder)
    IN  [i \in 1..Len(sx) |-> coll.anchored_bundles[sx[i]]]

\* lines 311-316: the conversion into the bounded collection
FitsUnchecked(anchored_bundles) == TRUE
Fits(anchored_bundles) == Len(anchored_bundles) <= MaxAnchoredBundles

CollectorConsignment(coll, schema, root_schema, genesis, tip_list) ==
    IF ~Fits(AnchoredBundlesOf(coll))
    THEN [ok |-> FALSE, error |-> Error("OutsizedBundle", "none"), consignment |-> << >>]
    ELSE [ok |-> TRUE, error |-> NoError,
          consignment |-> <<[schema |-> schema,
                             root_schema |-> root_schema,
                             genesis |-> genesis,
                             tips |-> SeqToSet(tip_list),
                             endpoints |-> coll.endpoints,
                             anchored_bundles |-> AnchoredBundlesOf(coll),
                             state_extensions |-> << >>]>>]

---------------------------------------------------------------------------
(* Runtime::compose_consignment *)

NoRequest == [contract_id |-> "none", include |-> {}, selection |-> SelectAll]
NoResult == [ok |-> FALSE, error |-> NoError, consignment |-> << >>]
Failed(error) == [ok |-> FALSE, error |-> error, consignment |-> << >>]

\* lines 189-208: genesis, schema and root schema are loaded
ComposeStart(contract_id, include, selection) ==
    /\ pc = "idle"
    /\ req' = [contract_id |-> contract_id, include |-> include, selection |-> selection]
    /\ last' = [op |-> "compose_consignment"]
    /\ collector' = NewCollector(contract_id)
    /\ tips' = << >>
    /\ visits' = << >>
    /\ todo' = Sorted(include, TypeOrder)
    /\ IF ~Has(db, "genesis", contract_id)
       THEN pc' = "done" /\ out' = Failed(Error("GenesisAbsent", contract_id))
       ELSE LET schema_id == Retrieve(db, "genesis", contract_id).schema_id
            IN  IF ~Has(db, "schemata", schema_id)
                THEN pc' = "done" /\ out' = Failed(Error("SchemaAbsent", schema_id))
                ELSE LET root_schema_id == Retrieve(db, "schemata", schema_id).root_id
                     IN  IF root_schema_id # ZeroSchemaId
                            /\ ~Has(db, "schemata", root_schema_id)
                         THEN pc' = "done"
                              /\ out' = Failed(Error("SchemaAbsent", root_schema_id))
                         ELSE pc' = (IF include = {} THEN "iterate" ELSE "forward")
                              /\ out' = NoResult
    /\ UNCHANGED <<db, ingests>>

\* Collector::process borrows the stash mutably (db: &mut Db, line 240) and
\* only retrieves from it (lines 248-264); a pass that wrote the bundles it
\* has revealed back to the stash would leave the second stash
StashAfterWriteBack(d, coll) ==
    [d EXCEPT !["bundles"] =
        [x \in DOMAIN d["bundles"] |->
            IF x \in DOMAIN coll.anchored_bundles
            THEN coll.anchored_bundles[x].bundle.revealed
            ELSE d["bundles"][x]]]

StashAfter(d, coll) == d

\* lines 209-212: one transition type of the include set
ForwardPass ==
    /\ pc = "forward"
    /\ LET node_ids == TransitionsByType(db, req.contract_id, Head(todo))
           r == Process(collector, visits, db, node_ids, req.selection)
       IN  /\ IF r.error # NoError
              THEN /\ pc' = "done"
                   /\ out' = Failed(r.error)
                   /\ UNCHANGED <<collector, tips, visits, todo>>
              ELSE /\ collector' = r.collector
                   /\ tips' = tips \o r.tips
                   /\ visits' = r.visits
                   /\ todo' = Tail(todo)
                   /\ pc' = (IF Tail(todo) = << >> THEN "iterate" ELSE "forward")
                   /\ out' = out
           /\ db' = StashAfter(db, r.collector)
    /\ UNCHANGED <<last, req, ingests>>

\* lines 294-295: the queue is taken and left empty; a loop that forgot
\* line 295 would keep it
KeepEndpointInputs(coll) == coll

TakeEndpointInputs(coll) == [coll EXCEPT !.endpoint_inputs = << >>]

\* Collector::iterate (lines 291-302): one turn of the loop
Iterate ==
    /\ pc = "iterate"
    /\ LET node_ids == collector.endpoint_inputs
           r == Process(TakeEndpointInputs(collector), visits, db,
                        node_ids, IterateSelection)
       IN  /\ IF r.error # NoError
              THEN /\ pc' = "done"
                   /\ out' = Failed(r.error)
                   /\ UNCHANGED <<collector, visits>>
              ELSE /\ collector' = r.collector
                   /\ visits' = r.visits
                   /\ pc' = (IF r.collector.endpoint_inputs = << >>
                             THEN "assemble" ELSE "iterate")
                   /\ out' = out
           /\ db' = StashAfter(db, r.collector)
    /\ UNCHANGED <<last, req, todo, tips, ingests>>

\* line 216: the consignment is assembled
Assemble ==
    /\ pc = "assemble"
    /\ LET genesis == Retrieve(db, "genesis", req.contract_id)
           schema == Retrieve(db, "schemata", genesis.schema_id)
           root_schema == IF schema.root_id # ZeroSchemaId
                          THEN <<Retrieve(db, "schemata", schema.root_id)>> ELSE << >>
       IN  out' = CollectorConsignment(collector, schema, root_schema, genesis, tips)
    /\ pc' = "done"
    /\ UNCHANGED <<db, last, req, todo, collector, tips, visits, ingests>>

\* the call has returned; the Collector and the locals are dropped
Return ==
    /\ pc = "done"
    /\ pc' = "idle"
    /\ last' = NoCall
    /\ req' = NoRequest
    /\ todo' = << >>
    /\ collector' = NewCollector("none")
    /\ tips' = << >>
    /\ visits' = << >>
    /\ out' = NoResult
    /\ UNCHANGED <<db, ingests>>

---------------------------------------------------------------------------

Init ==
    /\ ingests = NoIngests
    /\ db = EmptyDb
    /\ last = NoCall
    /\ pc = "idle"
    /\ req = NoRequest
    /\ todo = << >>
    /\ collector = NewCollector("none")
    /\ tips = << >>
    /\ visits = << >>
    /\ out = NoResult

Next ==
    \/ \E consignment \in Consignments : ProcessConsignment(consignment)
    \/ \E contract_id \in Contracts, include \in SUBSET TransitionTypes,
          selection \in OutpointSelections :
           ComposeStart(contract_id, include, selection)
    \/ ForwardPass
    \/ Iterate
    \/ Assemble
    \/ Return

Spec == Init /\ [][Next]_vars

\* two runtimes, each with one process_consignment call, on one stash that
\* is empty or knows the contract by its genesis
ConcurrentInit ==
    /\ ingests = NoIngests
    /\ db \in {EmptyDb} \cup {Merge(EmptyDb, k).db :
                              k \in {c \in ValidConsignments : c.anchored_bundles = << >>}}
    /\ last = NoCall
    /\ pc = "idle"
    /\ req = NoRequest
    /\ todo = << >>
    /\ collector = NewCollector("none")
    /\ tips = << >>
    /\ visits = << >>
    /\ out = NoResult

ConcurrentNext ==
    \/ \E w \in Workers, consignment \in ValidConsignments : IngestRead(w, consignment)
    \/ \E w \in Workers : IngestStoreSchema(w)
    \/ \E w \in Workers : IngestStoreRootSchema(w)
    \/ \E w \in Workers : IngestStoreGenesis(w)
    \/ \E w \in Workers : IngestStoreAnchor(w)
    \/ \E w \in Workers : IngestStoreTransition(w)
    \/ \E w \in Workers : IngestStoreTxid(w)
    \/ \E w \in Workers : IngestIndex(w)
    \/ \E w \in Workers : IngestStoreBundle(w)
    \/ \E w \in Workers : IngestStoreExtension(w)
    \/ \E w \in Workers : IngestStoreState(w)

ConcurrentSpec == ConcurrentInit /\ [][ConcurrentNext]_vars

---------------------------------------------------------------------------
(* Properties of process_consignment *)

\* the last step was a process_consignment call that the gate stopped
GateStopped(call) ==
    /\ call.op = "process_consignment"
    /\ \/ call.validity = "Invalid"
       \/ call.validity = "UnresolvedTransactions" /\ ~call.force

\* C1: a call whose verdict is Invalid, or UnresolvedTransactions without
\* force, returns that verdict and leaves every table of the store as it
\* was, whatever the store holds and also for an unknown contract.
C1_GateLeavesStore ==
    [][GateStopped(last')
        => db' = db /\ last'.outcome = "returned" /\ last'.status = last'.validity]_vars

\* C1 witness: an unforced call with unresolved transactions for a contract
\* the store does not know has returned, the store holding another contract
C1_Witness ==
    /\ pc = "done"
    /\ GateStopped(last)
    /\ last.validity = "UnresolvedTransactions"
    /\ ~last.known
    /\ ~Has(db, "genesis", last.contract_id)
    /\ db["transitions"] # EmptyTable

\* C3 (as claimed): an ingest that fails after the gate has passed leaves no
\* table of the store different from before the call.
C3_FailedIngestLeavesStore ==
    [][(last'.op = "process_consignment" /\ last'.merged /\ last'.outcome # "returned")
        => db' = db]_vars

---------------------------------------------------------------------------
(* Properties of compose_consignment *)

\* compose_consignment has returned / has returned a consignment
ComposeDone == pc = "done" /\ last.op = "compose_consignment"
Composed == ComposeDone /\ out.ok
Returned == out.consignment[1]

BundlesOf(cons) == {cons.anchored_bundles[i] : i \in 1..Len(cons.anchored_bundles)}
RevealedIn(cons) == UNION {ab.bundle.revealed : ab \in BundlesOf(cons)}
ConcealedIn(cons) == UNION {ab.bundle.concealed : ab \in BundlesOf(cons)}
TipOwners(cons) == {tip[1] : tip \in cons.tips}

\* the transitions a transition names as parents, and all it descends from
ParentTransitions(n) ==
    {Transitions[n].parent_outputs[i][1] : i \in 1..Len(Transitions[n].parent_outputs)}
        \cap TransitionIds

RECURSIVE AncestorsWithin(_, _)
AncestorsWithin(S, depth) ==
    IF depth = 0 THEN S
    ELSE AncestorsWithin(S \cup UNION {ParentTransitions(n) : n \in S}, depth - 1)

Ancestors(n) == AncestorsWithin(ParentTransitions(n), Cardinality(TransitionIds))

\* the transitions Collector::process has walked, and their witness txids
Walked == SeqToSet(visits)
WalkedTxids == {Retrieve(db, "transition_txid", n) : n \in Walked}

\* C4: in a returned consignment every transition that is a parent input of
\* the owner of a disclosed tip is revealed in one of the bundles.
C4_ParentsOfTipsRevealed ==
    Composed =>
        \A tip \in Returned.tips :
            ParentTransitions(tip[1]) \subseteq RevealedIn(Returned)

\* C4 witness: a consignment was returned whose tip owner has two parents
C4_Witness ==
    /\ Composed
    /\ \E tip \in Returned.tips :
           /\ Cardinality(ParentTransitions(tip[1])) >= 2
           /\ ParentTransitions(tip[1]) \subseteq RevealedIn(Returned)

\* C5 (as claimed): in a returned consignment every transition of the stash
\* reachable from a disclosed tip through parent references is revealed,
\* whatever the seals of the transitions in between.
C5_AncestryRevealed ==
    Composed =>
        \A tip \in Returned.tips :
            (Ancestors(tip[1]) \cap DOMAIN db["transitions"]) \subseteq RevealedIn(Returned)

\* C6 (as claimed): a transition that neither owns a disclosed tip nor is an
\* ancestor of an owner stays concealed, also when its type is included.
C6_OnlyTipsAndAncestorsRevealed ==
    Composed =>
        \A n \in RevealedIn(Returned) :
            \E t \in TipOwners(Returned) : n = t \/ n \in Ancestors(t)

\* C6 (amended): a revealed transition has its type in the include set or is
\* an ancestor of the owner of a disclosed tip.
C6_RevealedAreIncludedOrAncestors ==
    Composed =>
        \A n \in RevealedIn(Returned) :
            \/ Transitions[n].transition_type \in req.include
            \/ \E t \in TipOwners(Returned) : n \in Ancestors(t)

\* C6 witness: a returned consignment reveals a transition of an included
\* type that owns no tip and is no ancestor of one, conceals another
\* transition, and reveals an ancestor of an excluded type
C6_Witness ==
    /\ Composed
    /\ ConcealedIn(Returned) # {}
    /\ \E n \in RevealedIn(Returned) :
           /\ Transitions[n].transition_type \in req.include
           /\ \A t \in TipOwners(Returned) : n # t /\ n \notin Ancestors(t)
    /\ \E n \in RevealedIn(Returned) :
           /\ Transitions[n].transition_type \notin req.include
           /\ \E t \in TipOwners(Returned) : n \in Ancestors(t)

\* the endpoints the request asks for: the revealed seals, matching the
\* selection, of the indexed transitions of the included types
RequestedEndpoints ==
    UNION { UNION { { <<BundleNodes(req.contract_id, Transitions[n].witness), seal>> :
                      seal \in { s \in SeqToSet(Transitions[n].owned_rights[j]) :
                                 /\ s.revealed
                                 /\ SelectionIncludes(req.selection,
                                        SealOutpoint(s, Transitions[n].witness)) } } :
                    j \in 1..Len(Transitions[n].owned_rights) } :
            n \in { m \in DOMAIN db["transitions"] :
                    /\ Transitions[m].contract_id = req.contract_id
                    /\ Transitions[m].transition_type \in req.include } }

\* C7 (as claimed): the endpoints of a returned consignment are exactly the
\* requested ones; the backward pass adds none.
C7_EndpointsAsRequested ==
    Composed => SeqToSet(Returned.endpoints) = RequestedEndpoints

\* C8: every bundle of a returned consignment, of N transitions of which M
\* were walked, holds exactly those M revealed and the other N-M concealed.
C8_WalkedRevealedRestConcealed ==
    Composed =>
        \A ab \in BundlesOf(Returned) :
            LET all == Retrieve(db, "bundles", ab.anchor.txid)
            IN  /\ ab.bundle.revealed = all \cap Walked
                /\ ab.bundle.concealed = all \ Walked
                /\ Cardinality(ab.bundle.revealed) + Cardinality(ab.bundle.concealed)
                       = Cardinality(all)

\* C8 witness: a returned bundle of three transitions, all three ingested
\* revealed, of which one was walked
C8_Witness ==
    /\ Composed
    /\ \E ab \in BundlesOf(Returned) :
           LET all == Retrieve(db, "bundles", ab.anchor.txid)
           IN  /\ Cardinality(all) = 3
               /\ all \subseteq DOMAIN db["transitions"]
               /\ Cardinality(ab.bundle.revealed) = 1
               /\ Cardinality(ab.bundle.concealed) = 2

\* C9: when the walk is over and the walked transitions span more witness
\* transactions than a consignment may carry bundles, the assembly fails
\* with OutsizedBundle and returns nothing; otherwise the consignment carries
\* the bundle of every walked witness transaction.
C9_OversizedFails ==
    [][(pc = "assemble" /\ pc' = "done") =>
        IF Cardinality(WalkedTxids) > MaxAnchoredBundles
        THEN ~out'.ok /\ out'.error.kind = "OutsizedBundle" /\ out'.consignment = << >>
        ELSE out'.ok /\ {ab.anchor.txid : ab \in BundlesOf(out'.consignment[1])} = WalkedTxids]_vars

\* C9 witness: a compose whose walk spanned more witness transactions than
\* the maximum has failed with OutsizedBundle
C9_Witness ==
    /\ ComposeDone
    /\ Cardinality(WalkedTxids) > MaxAnchoredBundles
    /\ out.error.kind = "OutsizedBundle"
    /\ out.consignment = << >>

\* C10 (as claimed): with only the genesis and T1 (type A, spending a genesis
\* output, witness X1) in the stash, compose with include = {A} and the
\* selection of T1's outpoint returns one tip (T1, 0), one endpoint and one
\* anchored bundle for X1 with T1 revealed.
C10_GenesisEndsTheWalk ==
    ( /\ ComposeDone
      /\ req = [contract_id |-> "c1", include |-> {"A"},
                selection |-> SelectOutpoints({<<"X1", 0>>})]
      /\ DOMAIN db["transitions"] = {"T1"} )
    => /\ out.ok
       /\ Returned.tips = {<<"T1", 0>>}
       /\ Len(Returned.endpoints) = 1
       /\ Len(Returned.anchored_bundles) = 1
       /\ Returned.anchored_bundles[1].anchor.txid = "X1"
       /\ Returned.anchored_bundles[1].bundle.revealed = {"T1"}


---------------------------------------------------------------------------
(* Properties across contracts and of the stash as a whole *)

\* the node ids the per-type index holds for a contract
Indexed(d, c) ==
    UNION { IF Has(d, "contract_transitions", IndexTwoPieces(c, t))
            THEN Retrieve(d, "contract_transitions", IndexTwoPieces(c, t)) ELSE {} :
            t \in TransitionTypes }

\* what a value of a table is, None when the key is not there
Lookup(d, table, key) ==
    IF Has(d, table, key) THEN <<Retrieve(d, table, key)>> ELSE << >>

\* every stored item compose_consignment reads for contract c: its genesis,
\* its index, and per indexed node the transition, the witness txid, the
\* anchor's proof for c and the bundle record of that txid
ContractView(d, c) ==
    [genesis |-> Lookup(d, "genesis", c),
     index |-> [t \in TransitionTypes |->
                   Lookup(d, "contract_transitions", IndexTwoPieces(c, t))],
     nodes |-> [n \in Indexed(d, c) |->
                   LET txid == Lookup(d, "transition_txid", n)
                   IN  [transition |-> Lookup(d, "transitions", n),
                        txid |-> txid,
                        anchor |-> IF txid # << >> /\ Has(d, "anchors", txid[1])
                                   THEN <<ToMerkleProofOk(Retrieve(d, "anchors", txid[1]), c)>>
                                   ELSE << >>,
                        bundle |-> IF txid # << >>
                                   THEN Lookup(d, "bundles", txid[1]) ELSE << >>]]]

\* C11 (as claimed): an ingest for one contract leaves unchanged every
\* stored item compose reads for another contract, also when bundles of the
\* two contracts are anchored by the same witness transaction.
C11_OtherContractUntouched ==
    [][(last'.op = "process_consignment" /\ last'.outcome = "returned")
        => \A c \in Contracts \ {last'.contract_id} :
               ContractView(db', c) = ContractView(db, c)]_vars


---------------------------------------------------------------------------
(* Further properties of the two operations *)

\* a step of a compose_consignment call
ComposeStep == pc \in {"forward", "iterate", "assemble"} \/ last'.op = "compose_consignment"

\* C12: no step of compose_consignment changes a table of the stash,
\* whether the call ends with a consignment or with an error.
C12_ComposeReadsOnly ==
    [][ComposeStep => db' = db]_vars

\* C12 witness: on a stash with transitions, one compose has returned a
\* consignment with a concealed transition after both passes have walked
C12_Witness ==
    /\ Composed
    /\ Len(visits) >= 3
    /\ ConcealedIn(Returned) # {}
    /\ DOMAIN db["bundles"] # {}


\* C13: process_consignment merges exactly when the verdict is Valid, or is
\* UnresolvedTransactions and force is set; a merge that returns has written
\* the contract's genesis and state; and every call that returns gives back
\* the validator's status as it was.
C13_MergesWhenAllowedReturnsStatus ==
    [][last'.op = "process_consignment" =>
        /\ last'.merged <=>
              \/ last'.validity = "Valid"
              \/ last'.validity = "UnresolvedTransactions" /\ last'.force
        /\ (last'.merged /\ last'.outcome = "returned") =>
              /\ Has(db', "genesis", last'.contract_id)
              /\ Has(db', "contracts", last'.contract_id)
        /\ ~last'.merged => db' = db
        /\ last'.outcome = "returned" => last'.status = last'.validity]_vars

\* C13 witness: a forced import of a consignment with unresolved
\* transactions has been merged for a new contract and has returned
\* UnresolvedTransactions
C13_Witness ==
    /\ pc = "done"
    /\ last.op = "process_consignment"
    /\ last.force /\ last.validity = "UnresolvedTransactions"
    /\ last.merged /\ ~last.known
    /\ last.status = "UnresolvedTransactions"
    /\ Has(db, "contracts", last.contract_id)
    /\ Indexed(db, last.contract_id) # {}


\* the length of the longest chain of parent references from a node id down
\* to an id that is no transition (the genesis); the graph is acyclic
RECURSIVE Height(_)
Height(n) ==
    IF n \notin TransitionIds THEN 0
    ELSE LET heights == {Height(p) : p \in ParentTransitions(n)}
         IN  1 + (IF heights = {} THEN 0
                  ELSE CHOOSE h \in heights : \A g \in heights : g <= h)

QueueHeight(queue) ==
    IF queue = << >> THEN 0
    ELSE LET heights == {Height(queue[i]) : i \in 1..Len(queue)}
         IN  CHOOSE h \in heights : \A g \in heights : g <= h

\* C14: Collector::iterate terminates: a turn of the loop ends it, with an
\* empty queue or with an error, or leaves a queue whose ids are strictly
\* nearer to the genesis than those of the queue it took; the distance is a
\* natural number, so the loop has no more turns than the graph is deep.
C14_IterateTerminates ==
    [][pc = "iterate" =>
        \/ pc' = "assemble" /\ collector'.endpoint_inputs = << >>
        \/ pc' = "done" /\ ~out'.ok /\ out'.error # NoError
        \/ /\ pc' = "iterate"
           /\ QueueHeight(collector'.endpoint_inputs)
                  < QueueHeight(collector.endpoint_inputs)]_vars

\* C14 witness: the loop has ended with an empty queue after walking from
\* T7 over T5 and T6 down to T2, two turns
C14_Witness ==
    /\ pc = "assemble"
    /\ collector.endpoint_inputs = << >>
    /\ req.include = {"A"}
    /\ {"T7", "T5", "T6", "T2"} \subseteq Walked


\* C15 (as claimed): during one compose no transition id is loaded and
\* processed more than once by Collector::process.
C15_NoTransitionWalkedTwice ==
    \A i, j \in 1..Len(visits) : visits[i] = visits[j] => i = j


\* A traversal that visits every transition once: Collector::process with a
\* guard of visited ids in front of it
RECURSIVE ProcessNodesOnce(_, _, _, _)
ProcessNodesOnce(r, d, node_ids, selection) ==
    IF node_ids = << >> \/ r.error # NoError THEN r
    ELSE IF Head(node_ids) \in SeqToSet(r.visits)
    THEN ProcessNodesOnce(r, d, Tail(node_ids), selection)
    ELSE ProcessNodesOnce(ProcessTransition(r, d, Head(node_ids), selection),
                          d, Tail(node_ids), selection)

RECURSIVE ForwardOnce(_, _, _, _, _)
ForwardOnce(r, d, contract_id, types, selection) ==
    IF types = << >> \/ r.error # NoError THEN r
    ELSE ForwardOnce(
             ProcessNodesOnce(r, d, TransitionsByType(d, contract_id, Head(types)),
                              selection),
             d, contract_id, Tail(types), selection)

RECURSIVE IterateOnce(_, _)
IterateOnce(r, d) ==
    LET turn == ProcessNodesOnce([r EXCEPT !.collector = TakeEndpointInputs(@)], d,
                                 r.collector.endpoint_inputs, IterateSelection)
    IN  IF turn.error # NoError \/ turn.collector.endpoint_inputs = << >>
        THEN turn ELSE IterateOnce(turn, d)

WalkOnce(d, request) ==
    LET forward == ForwardOnce([collector |-> NewCollector(request.contract_id),
                                tips |-> << >>, visits |-> << >>, error |-> NoError],
                               d, request.contract_id,
                               Sorted(request.include, TypeOrder), request.selection)
    IN  IF forward.error # NoError THEN forward ELSE IterateOnce(forward, d)

\* two walked transitions share a walked parent that only the backward pass
\* reaches
DiamondWalked ==
    \E m, n \in Walked :
        /\ m # n
        /\ \E p \in ParentTransitions(m) \cap ParentTransitions(n) \cap Walked :
               Transitions[p].transition_type \notin req.include

\* C16 (as claimed): for a diamond-shaped ancestry the returned consignment
\* has the endpoints and the anchored bundles, with their revealed
\* transitions, of the traversal that visits every transition once.
C16_SameAsVisitingOnce ==
    (Composed /\ DiamondWalked) =>
        LET once == WalkOnce(db, req)
        IN  /\ once.error = NoError
            /\ Returned.anchored_bundles = AnchoredBundlesOf(once.collector)
            /\ Returned.endpoints = once.collector.endpoints


\* the revealed outputs of the genesis and of the indexed transitions of a
\* contract that no indexed transition spends
UnspentOutputs(d, c) ==
    LET spent == UNION {SeqToSet(Transitions[n].parent_outputs) : n \in Indexed(d, c)}
    IN  (RevealedOutputs(Retrieve(d, "genesis", c))
            \cup UNION {RevealedOutputs(Transitions[n]) : n \in Indexed(d, c)}) \ spent

\* the persisted state lacks outputs of stored and indexed transitions
LostUpdate(d, c) ==
    /\ Has(d, "contracts", c)
    /\ ~(UnspentOutputs(d, c) \subseteq Retrieve(d, "contracts", c).owned)

BothDone == \A w \in Workers : ingests[w].pc = "done"
Overlapped == \E w \in Workers : ingests[w].overlapped

\* C17: when the two calls are serialized (neither reads the state while
\* the other holds it), the finally persisted state lacks no output of an
\* indexed transition; the lost update needs the overlap.
C17_SerializedLosesNothing ==
    (BothDone /\ ~Overlapped) => ~LostUpdate(db, "c1")

\* C17 witness: both calls read the state before either stored it, and the
\* finally persisted state lacks outputs of transitions that are in the
\* transitions table and in the index
C17_Witness ==
    /\ BothDone
    /\ Overlapped
    /\ LostUpdate(db, "c1")
    /\ Indexed(db, "c1") \subseteq DOMAIN db["transitions"]
    /\ \A w \in Workers :
           ingests[w].consignment[1].anchored_bundles # << >>


\* C18 (as claimed): after ingests that completed without error every
\* indexed node id has its transition and its witness txid stored, and that
\* txid has an anchor and a bundle record that contains the node id.
C18_IndexedNodesResolve ==
    pc # "panicked" =>
        \A c \in Contracts : \A n \in Indexed(db, c) :
            /\ Has(db, "transitions", n)
            /\ Has(db, "transition_txid", n)
            /\ LET txid == Retrieve(db, "transition_txid", n)
               IN  /\ Has(db, "anchors", txid)
                   /\ Has(db, "bundles", txid)
                   /\ n \in Retrieve(db, "bundles", txid)


\* the nodes of a contract that the stash holds besides the genesis: the
\* indexed transitions and the stored extensions
FoldedNodes(d, c) ==
    Indexed(d, c) \cup {e \in DOMAIN d["extensions"] : Extensions[e].contract_id = c}

\* the state after one more node
FoldNode(state, n) ==
    IF n \in TransitionIds
    THEN AddTransition(state, Transitions[n].witness, Transitions[n])
    ELSE AddExtension(state, Extensions[n])

\* folding the nodes, each once, in some order takes state to target
RECURSIVE FoldReaches(_, _, _)
FoldReaches(state, nodes, target) ==
    IF nodes = {} THEN state = target
    ELSE \E n \in nodes : FoldReaches(FoldNode(state, n), nodes \ {n}, target)

\* C19: between calls that returned, for every contract the stash knows:
\* the stored transitions of the contract are the indexed ones, each with
\* its witness txid; the contract has a persisted state; and that state is
\* the fold of the genesis with exactly the indexed transitions and stored
\* extensions, each once (in the order they were last ingested).
C19_StateIsFoldOfIndexed ==
    pc = "idle" =>
        \A c \in Contracts :
            LET stored == {n \in DOMAIN db["transitions"] : Transitions[n].contract_id = c}
            IN  /\ stored = Indexed(db, c)
                /\ \A n \in stored : Has(db, "transition_txid", n)
                /\ (FoldedNodes(db, c) # {} \/ Has(db, "genesis", c))
                       <=> Has(db, "contracts", c)
                /\ Has(db, "contracts", c) =>
                       /\ Has(db, "genesis", c)
                       /\ FoldReaches(ContractStateWith(c, Retrieve(db, "genesis", c)),
                                      FoldedNodes(db, c), Retrieve(db, "contracts", c))

\* C19 witness: a second merge for a known contract has returned; the stash
\* holds T2, T3 and T4, ingested out of their order (the output of T2 that
\* T3 spends is in the state), and the state is a fold of the three
C19_Witness ==
    /\ pc = "done"
    /\ last.op = "process_consignment" /\ last.merged /\ last.known
    /\ last.outcome = "returned"
    /\ Indexed(db, "c1") = {"T2", "T3", "T4"}
    /\ <<"T2", 0>> \in Retrieve(db, "contracts", "c1").owned
    /\ FoldReaches(ContractStateWith("c1", Retrieve(db, "genesis", "c1")),
                   FoldedNodes(db, "c1"), Retrieve(db, "contracts", "c1"))

===========================================================================
